---- MODULE Spec2Model ----
(***************************************************************************)
(* Resource allocation of ai_project_manager: the portfolio run            *)
(* (PortfolioManagerAgent.allocate_resources) and the deep-dive run        *)
(* (DeepDiveAgent.allocate_tasks) of backend/multi_agent_system.py.        *)
(*                                                                         *)
(* One step of the model is one iteration of the task loop (or one phase   *)
(* boundary of the deep-dive run).  Scores are Python floats in the code;  *)
(* here they are exact rationals <<numerator, denominator>> in lowest      *)
(* terms, and a combined score carries the last bit of its float sum, so   *)
(* that candidates are ordered as the floats order them.                   *)
(* A team member is identified by its roster position                      *)
(* (names are unique in a roster), a project by its position in the        *)
(* caller's list.                                                          *)
(***************************************************************************)
EXTENDS Integers, Sequences, FiniteSets

VARIABLES
    mode,                  \* "portfolio" or "deepdive": which agent runs
    team_members,          \* self.team_members, in roster order
    projects,              \* self.projects (portfolio: sorted by priority)
    tasks,                 \* DeepDiveAgent.tasks
    bandwidth_tracker,     \* member -> (week -> percent committed)
    member_earliest_week,  \* member -> cursor
    consecutive_tasks,     \* member -> streak counter (portfolio)
    last_assigned_member,  \* 0 stands for None
    proj_i,                \* position of the project loop (portfolio)
    task_i,                \* position of the task loop
    phase_idx,             \* position of the phase loop (deep-dive)
    phase_start_week,
    phase_max_end_week,
    phase_end_weeks,       \* phase -> week, a dict that starts empty
    all_allocations,       \* the list being built by the running call
    allocations,           \* self.allocations
    member_candidates,     \* the sorted candidate list of the last task
    console,               \* one mark per assignment line printed
    uuid_salt,             \* stands for the uuid4 draws of the running call
    runs,                  \* number of calls started on this agent
    llm_response,          \* <<>> until assess_risks has called the model
    risks,                 \* the list assess_risks returned
    output,                \* <<>> until execute() has built its AgentOutput
    max_weeks,             \* self.max_weeks of the portfolio agent
    master,                \* the MasterManagerAgent driving the agents, if any
    session,               \* st.session_state of the front end, if any
    pc

vars == <<mode, team_members, projects, tasks, bandwidth_tracker,
          member_earliest_week, consecutive_tasks, last_assigned_member,
          proj_i, task_i, phase_idx, phase_start_week, phase_max_end_week,
          phase_end_weeks, all_allocations, allocations, member_candidates,
          console, uuid_salt, runs, llm_response, risks, output, max_weeks,
          master, session, pc>>

(***************************************************************************)
(* Bounds of the model                                                     *)
(***************************************************************************)
MaxMembers == 2
MaxProjects == 2
MaxTasks == 2
MaxRuns == 2
MaxLines == 3

(***************************************************************************)
(* Program constants                                                       *)
(***************************************************************************)
hours_per_week == 20
bandwidth_needed == 50
default_hourly_rate == 50
default_budget == 100000
team_utilization == 78
default_max_weeks == 52

phases == <<"Planning", "Design", "Development", "Testing", "Deployment">>

phase_order == <<"Planning", "Design", "Development", "Testing", "Deployment">>

(***************************************************************************)
(* Generic helpers                                                         *)
(***************************************************************************)
Max(a, b) == IF a >= b THEN a ELSE b

ToSet(s) == {s[i] : i \in 1..Len(s)}

SeqsUpTo(S, n) == UNION {[1..k -> S] : k \in 0..n}

\* dict.get(week, 0)
Get(d, w) == IF w \in DOMAIN d THEN d[w] ELSE 0

RECURSIVE SumOver(_, _)
\* the sum of d's values, taken value by value: each distinct value in V
\* times the number of keys that hold it
SumOver(d, V) ==
    IF V = {} THEN 0
    ELSE LET v == CHOOSE x \in V : TRUE
         IN  v * Cardinality({w \in DOMAIN d : d[w] = v}) + SumOver(d, V \ {v})

\* sum(dict.values())
SumValues(d) == SumOver(d, {d[w] : w \in DOMAIN d})

RECURSIVE GCD(_, _)
GCD(a, b) == IF b = 0 THEN a ELSE GCD(b, a % b)

\* rationals <<n, d>> with n >= 0 and d > 0, kept in lowest terms
Norm(r) == LET g == GCD(r[1], r[2]) IN <<r[1] \div g, r[2] \div g>>

RatAdd(a, b) == Norm(<<a[1] * b[2] + b[1] * a[2], a[2] * b[2]>>)

RatMul(a, b) == Norm(<<a[1] * b[1], a[2] * b[2]>>)

\* comparison of two combined scores <<n, d, bit>>: the exact value n/d
\* first, then the last bit of the float sum (see RoundedUpSums)
ScoreGT(a, b) ==
    \/ a[1] * b[2] > b[1] * a[2]
    \/ a[1] * b[2] = b[1] * a[2] /\ a[3] > b[3]

\* variant: a descending sort that puts a later element before its equals
RECURSIVE StableSortDesc_ties_reversed(_)
StableSortDesc_ties_reversed(seq) ==
    IF seq = <<>> THEN <<>>
    ELSE LET init == StableSortDesc_ties_reversed(SubSeq(seq, 1, Len(seq) - 1))
             x    == seq[Len(seq)]
             k    == Cardinality({j \in 1..Len(init) :
                                     ScoreGT(init[j].combined_score,
                                             x.combined_score)})
         IN  SubSeq(init, 1, k) \o <<x>> \o SubSeq(init, k + 1, Len(init))

\* list.sort(reverse=True, key=combined score): descending and stable, equal
\* keys keep their original order
RECURSIVE StableSortDesc(_)
StableSortDesc(seq) ==
    IF seq = <<>> THEN <<>>
    ELSE LET init == StableSortDesc(SubSeq(seq, 1, Len(seq) - 1))
             x    == seq[Len(seq)]
             k    == Cardinality({j \in 1..Len(init) :
                                     ~ ScoreGT(x.combined_score,
                                               init[j].combined_score)})
         IN  SubSeq(init, 1, k) \o <<x>> \o SubSeq(init, k + 1, Len(init))

\* variant: the projects are taken in the caller's order
SortByPriority_unsorted(seq) == seq

\* sorted(projects, key=lambda x: x.priority): ascending and stable
RECURSIVE SortByPriority(_)
SortByPriority(seq) ==
    IF seq = <<>> THEN <<>>
    ELSE LET init == SortByPriority(SubSeq(seq, 1, Len(seq) - 1))
             x    == seq[Len(seq)]
             k    == Cardinality({j \in 1..Len(init) :
                                     init[j].priority <= x.priority})
         IN  SubSeq(init, 1, k) \o <<x>> \o SubSeq(init, k + 1, Len(init))

(***************************************************************************)
(* Inputs                                                                  *)
(***************************************************************************)
TeamMember ==
    [skills : {{"python"}},
     total_bandwidth_percent : {40, 100},
     hourly_rate : {default_hourly_rate}]
    \cup
    [skills : {{"java"}},
     total_bandwidth_percent : {50},
     hourly_rate : {default_hourly_rate}]

member_names == <<"A", "B", "C", "D">>

\* A roster: names are unique; the first person may have the empty name,
\* which Python takes for false
NamedRoster(s, empty) ==
    [i \in 1..Len(s) |->
        [name                    |-> IF i = empty THEN ""
                                     ELSE member_names[i],
         skills                  |-> s[i].skills,
         total_bandwidth_percent |-> s[i].total_bandwidth_percent,
         hourly_rate             |-> s[i].hourly_rate]]

Rosters ==
    {NamedRoster(s, empty) :
        s \in SeqsUpTo(TeamMember, MaxMembers), empty \in {0, 1}}

\* required_skills is a list: duplicates and order are kept.
\* estimated_duration_weeks 5 gives tasks of 40 hours (2 weeks each), 0 gives
\* tasks of 0 hours
Project ==
    [priority : {1},
     required_skills : {<<"python">>, <<"python", "go", "java">>},
     estimated_duration_weeks : {5}]
    \cup
    [priority : {2},
     required_skills : {<<>>},
     estimated_duration_weeks : {5}]
    \cup
    [priority : {1},
     required_skills : {<<"python", "python">>},
     estimated_duration_weeks : {0}]

\* the caller's project list; idx records the position in that list
ProjectLists ==
    { [i \in 1..Len(s) |-> [idx |-> i,
                            priority |-> s[i].priority,
                            required_skills |-> s[i].required_skills,
                            estimated_duration_weeks |->
                                s[i].estimated_duration_weeks]] :
      s \in SeqsUpTo(Project, MaxProjects) }

(***************************************************************************)
(* Portfolio run: PortfolioManagerAgent                                    *)
(***************************************************************************)
Members == 1..Len(team_members)

\* required_skills[:2]
FirstTwo(s) == SubSeq(s, 1, IF Len(s) < 2 THEN Len(s) ELSE 2)

\* Task(...) draws its id from uuid4, a value not seen before: the id of the
\* k-th task created for a project is written <<salt, project, k>>, with a
\* salt that differs from call to call.
_create_portfolio_tasks(project) ==
    [k \in 1..Len(phases) |->
        [id              |-> <<uuid_salt, project.idx, k>>,
         task_name       |-> <<phases[k], project.idx>>,
         required_skills |-> FirstTwo(project.required_skills),
         estimated_hours |-> project.estimated_duration_weeks * 8,
         phase           |-> phases[k]]]

match_skills(required_skills, member) ==
    IF required_skills = <<>> THEN <<1, 2>>
    ELSE Norm(<<Cardinality(ToSet(required_skills) \cap member.skills),
                Len(required_skills)>>)

\* variant: the load of the person's busiest week instead of the sum
total_workload_busiest_week(m) ==
    IF DOMAIN bandwidth_tracker[m] = {} THEN 0
    ELSE CHOOSE v \in {bandwidth_tracker[m][w] : w \in DOMAIN bandwidth_tracker[m]} :
             \A w \in DOMAIN bandwidth_tracker[m] : bandwidth_tracker[m][w] <= v

total_workload(m) == SumValues(bandwidth_tracker[m])

\* 1.0 / (1.0 + total_workload / 100.0)
workload_score(m) == Norm(<<100, 100 + total_workload(m)>>)

\* variant: the floor is reached one assignment later
consecutive_score_floor_late(consecutive_count) ==
    IF consecutive_count >= 4 THEN <<2, 5>>
    ELSE Norm(<<100 - consecutive_count * 15, 100>>)

\* 0.5 if consecutive_count >= 3 else 1.0 - (consecutive_count * 0.15)
consecutive_score(consecutive_count) ==
    IF consecutive_count >= 3 THEN <<1, 2>>
    ELSE Norm(<<100 - consecutive_count * 15, 100>>)

\* The three terms are added in double precision.  Sums that are equal as
\* rationals can differ in the last bit of the float: with at most 46 weeks
\* committed to a person, these are the operands <<skill, workload,
\* consecutive>> whose float sum lies one bit above the float sum of the
\* other operands of the same exact sum.
RoundedUpSums ==
    { << <<0, 1>>, <<2, 25>>, <<1, 1>> >>,
      << <<1, 2>>, <<2, 15>>, <<1, 1>> >>,
      << <<0, 1>>, <<1, 2>>, <<1, 1>> >>,
      << <<1, 2>>, <<1, 5>>, <<1, 1>> >>,
      << <<1, 1>>, <<1, 5>>, <<1, 1>> >>,
      << <<1, 2>>, <<1, 2>>, <<1, 1>> >> }

\* variant: the weights of skill and workload are exchanged
combined_score_skill_first(skill_score, workload, consecutive) ==
    LET sum == RatAdd(RatAdd(RatMul(<<1, 2>>, skill_score),
                             RatMul(<<3, 10>>, workload)),
                      RatMul(<<1, 5>>, consecutive))
    IN  <<sum[1], sum[2], 0>>

\* (0.3 * skill_score) + (0.5 * workload_score) + (0.2 * consecutive_score)
combined_score(skill_score, workload, consecutive) ==
    LET sum == RatAdd(RatAdd(RatMul(<<3, 10>>, skill_score),
                             RatMul(<<1, 2>>, workload)),
                      RatMul(<<1, 5>>, consecutive))
    IN  <<sum[1], sum[2],
          IF <<skill_score, workload, consecutive>> \in RoundedUpSums
          THEN 1 ELSE 0>>

\* the dict appended to member_candidates for one member
PortfolioCandidate(task, m) ==
    LET skill       == match_skills(task.required_skills, team_members[m])
        workload    == workload_score(m)
        consecutive == consecutive_score(consecutive_tasks[m])
    IN  [combined_score    |-> combined_score(skill, workload, consecutive),
         skill_score       |-> skill,
         workload_score    |-> workload,
         consecutive_score |-> consecutive,
         consecutive_count |-> consecutive_tasks[m],
         member            |-> m]

\* the candidate list after member_candidates.sort(...)
PortfolioCandidates(task) ==
    StableSortDesc([m \in Members |-> PortfolioCandidate(task, m)])

\* variant: the duration is not clamped to one week
duration_weeks_unclamped(task) == task.estimated_hours \div hours_per_week

\* max(1, int(task.estimated_hours / hours_per_week))
duration_weeks(task) == Max(1, task.estimated_hours \div hours_per_week)

WeekRange(start_week, duration) == start_week..(start_week + duration - 1)

\* variant: the check forgets the bandwidth the new task needs
can_assign_without_new_task(m, start_week, duration) ==
    \A week \in WeekRange(start_week, duration) :
        Get(bandwidth_tracker[m], week)
            <= team_members[m].total_bandwidth_percent

\* variant: the usage with the new task must stay strictly below the capacity
can_assign_strict(m, start_week, duration) ==
    \A week \in WeekRange(start_week, duration) :
        Get(bandwidth_tracker[m], week) + bandwidth_needed
            < team_members[m].total_bandwidth_percent

can_assign(m, start_week, duration) ==
    \A week \in WeekRange(start_week, duration) :
        Get(bandwidth_tracker[m], week) + bandwidth_needed
            <= team_members[m].total_bandwidth_percent

\* positions of the sorted list whose member passes the capacity check
FittingPositions(task, candidates) ==
    {j \in 1..Len(candidates) :
        can_assign(candidates[j].member,
                   member_earliest_week[candidates[j].member],
                   duration_weeks(task))}

\* the loop over the sorted list stops at the first position that fits
FirstOf(positions) == CHOOSE j \in positions : \A k \in positions : j <= k

\* variant: the cost is charged by scheduled weeks instead of task hours
ResourceAllocation_cost_by_weeks(project, task, m, start_week) ==
    [project             |-> project,
     task                |-> task,
     team_member         |-> m,
     start_week          |-> start_week,
     end_week            |-> start_week + duration_weeks(task),
     allocated_bandwidth |-> bandwidth_needed,
     estimated_cost      |-> duration_weeks(task) * hours_per_week
                             * team_members[m].hourly_rate]

ResourceAllocation(project, task, m, start_week) ==
    [project             |-> project,
     task                |-> task,
     team_member         |-> m,
     start_week          |-> start_week,
     end_week            |-> start_week + duration_weeks(task),
     allocated_bandwidth |-> bandwidth_needed,
     estimated_cost      |-> task.estimated_hours
                             * team_members[m].hourly_rate]

\* bandwidth_tracker[name][week] = bandwidth_tracker[name].get(week, 0) + 50
\* for every week of the task
AddBandwidth(d, start_week, duration) ==
    [week \in (DOMAIN d) \cup WeekRange(start_week, duration) |->
        IF week \in WeekRange(start_week, duration)
        THEN Get(d, week) + bandwidth_needed
        ELSE d[week]]

UpdateTracker(m, start_week, duration) ==
    bandwidth_tracker' =
        [bandwidth_tracker EXCEPT
            ![m] = AddBandwidth(@, start_week, duration)]

\* "if last_assigned_member:" is false for None and for the empty name
Truthy(last) == last # 0 /\ team_members[last].name # ""

UpdateStreak(m) ==
    /\ consecutive_tasks' =
           IF last_assigned_member = m
           THEN [consecutive_tasks EXCEPT ![m] = @ + 1]
           ELSE IF Truthy(last_assigned_member)
                THEN [consecutive_tasks EXCEPT ![last_assigned_member] = 0,
                                               ![m] = 1]
                ELSE [consecutive_tasks EXCEPT ![m] = 1]
    /\ last_assigned_member' = m

CurrentProject == projects[proj_i]

CurrentPortfolioTask == _create_portfolio_tasks(CurrentProject)[task_i]

InPortfolioLoop ==
    /\ mode = "portfolio"
    /\ pc = "run"
    /\ proj_i <= Len(projects)

NextPortfolioTask ==
    IF task_i < Len(phases)
    THEN /\ task_i' = task_i + 1
         /\ proj_i' = proj_i
    ELSE /\ task_i' = 1
         /\ proj_i' = proj_i + 1

\* variant: a task waits for the tasks of its project assigned before it
PortfolioCommit_phase_gate(task, candidates, m, mark) ==
    \E start_week \in
          {w \in {member_earliest_week[m]}
                    \cup {all_allocations[i].end_week :
                              i \in 1..Len(all_allocations)} :
              /\ w >= member_earliest_week[m]
              /\ \A i \in 1..Len(all_allocations) :
                    all_allocations[i].project = CurrentProject
                        => w >= all_allocations[i].end_week
              /\ \/ w = member_earliest_week[m]
                 \/ \E i \in 1..Len(all_allocations) :
                       /\ all_allocations[i].project = CurrentProject
                       /\ w = all_allocations[i].end_week} :
        /\ member_candidates' = candidates
        /\ all_allocations' =
               Append(all_allocations,
                      ResourceAllocation(CurrentProject, task, m, start_week))
        /\ UpdateTracker(m, start_week, duration_weeks(task))
        /\ member_earliest_week' =
               [member_earliest_week EXCEPT
                   ![m] = start_week + duration_weeks(task)]
        /\ UpdateStreak(m)
        /\ console' = Append(console, mark)
        /\ NextPortfolioTask

\* variant: the assignment leaves the person's cursor where it was
PortfolioCommit_cursor_unchanged(task, candidates, m, mark) ==
    \E start_week \in {member_earliest_week[m]} :
        /\ member_candidates' = candidates
        /\ all_allocations' =
               Append(all_allocations,
                      ResourceAllocation(CurrentProject, task, m, start_week))
        /\ UpdateTracker(m, start_week, duration_weeks(task))
        /\ member_earliest_week' = member_earliest_week
        /\ UpdateStreak(m)
        /\ console' = Append(console, mark)
        /\ NextPortfolioTask

PortfolioCommit(task, candidates, m, mark) ==
    \E start_week \in {member_earliest_week[m]} :
        /\ member_candidates' = candidates
        /\ all_allocations' =
               Append(all_allocations,
                      ResourceAllocation(CurrentProject, task, m, start_week))
        /\ UpdateTracker(m, start_week, duration_weeks(task))
        /\ member_earliest_week' =
               [member_earliest_week EXCEPT
                   ![m] = start_week + duration_weeks(task)]
        /\ UpdateStreak(m)
        /\ console' = Append(console, mark)
        /\ NextPortfolioTask

PortfolioFrame ==
    UNCHANGED <<llm_response, risks, output,
                max_weeks, master, session, mode, team_members, projects, tasks, phase_idx,
                phase_start_week, phase_max_end_week, phase_end_weeks,
                allocations, uuid_salt, runs, pc>>

\* the first candidate of the sorted list that passes the capacity check
PortfolioAssign ==
    /\ InPortfolioLoop
    /\ \E task \in {CurrentPortfolioTask} :
       \E candidates \in {PortfolioCandidates(task)} :
       \E fitting \in {FittingPositions(task, candidates)} :
           /\ fitting # {}
           /\ PortfolioCommit(task, candidates,
                              candidates[FirstOf(fitting)].member, "assigned")
    /\ PortfolioFrame

\* variant: when nobody fits the task goes to the bottom of the sorted list
PortfolioForce_last_candidate ==
    /\ InPortfolioLoop
    /\ \E task \in {CurrentPortfolioTask} :
       \E candidates \in {PortfolioCandidates(task)} :
           /\ FittingPositions(task, candidates) = {}
           /\ candidates # <<>>
           /\ PortfolioCommit(task, candidates,
                              candidates[Len(candidates)].member,
                              "overallocated")
    /\ PortfolioFrame

\* nobody fits: the top of the sorted list gets the task anyway
PortfolioForce ==
    /\ InPortfolioLoop
    /\ \E task \in {CurrentPortfolioTask} :
       \E candidates \in {PortfolioCandidates(task)} :
           /\ FittingPositions(task, candidates) = {}
           /\ candidates # <<>>
           /\ PortfolioCommit(task, candidates, candidates[1].member,
                              "overallocated")
    /\ PortfolioFrame

\* empty roster: no candidate, the task is passed over
PortfolioNoCandidate ==
    /\ InPortfolioLoop
    /\ team_members = <<>>
    /\ NextPortfolioTask
    /\ member_candidates' = <<>>
    /\ UNCHANGED <<all_allocations, bandwidth_tracker, member_earliest_week,
                   consecutive_tasks, last_assigned_member, console>>
    /\ PortfolioFrame

(***************************************************************************)
(* Deep-dive run: DeepDiveAgent                                            *)
(***************************************************************************)
\* <<phase, task name, hours>> in the order of the template dict
task_templates ==
    << <<"Planning", "Requirements Gathering", 40>>,
       <<"Planning", "Feasibility Study", 30>>,
       <<"Planning", "Project Charter", 20>>,
       <<"Planning", "Stakeholder Analysis", 20>>,
       <<"Design", "System Architecture", 60>>,
       <<"Design", "Database Design", 40>>,
       <<"Design", "UI/UX Design", 50>>,
       <<"Design", "API Design", 30>>,
       <<"Development", "Backend Development", 120>>,
       <<"Development", "Frontend Development", 100>>,
       <<"Development", "Database Implementation", 60>>,
       <<"Development", "API Implementation", 80>>,
       <<"Development", "Integration", 60>>,
       <<"Development", "Code Review", 40>>,
       <<"Testing", "Unit Testing", 50>>,
       <<"Testing", "Integration Testing", 40>>,
       <<"Testing", "User Acceptance Testing", 30>>,
       <<"Testing", "Performance Testing", 30>>,
       <<"Deployment", "Environment Setup", 30>>,
       <<"Deployment", "Deployment Configuration", 25>>,
       <<"Deployment", "Production Deployment", 20>>,
       <<"Deployment", "Post-Deployment Monitoring", 25>> >>

create_detailed_tasks(project, salt) ==
    [k \in 1..Len(task_templates) |->
        [id              |-> <<salt, project.idx, k>>,
         task_name       |-> task_templates[k][2],
         required_skills |-> FirstTwo(project.required_skills),
         estimated_hours |-> task_templates[k][3],
         phase           |-> task_templates[k][1]]]

\* Task lists put into DeepDiveAgent.tasks by a caller.  allocate_tasks
\* regroups the list by phase and keeps the order inside a phase only, so the
\* lists are enumerated with their phases already in order.
CallerPhases == <<"Planning", "Design", "Development", "Other">>

\* (phase, estimated_hours) of a caller's task: 0 or 40 hours in the first
\* phase, 40 hours in the later ones
CallerTaskKinds == ({1} \X {0, 40}) \cup ({2, 3, 4} \X {40})

CallerTaskLists(project, salt) ==
    { [k \in 1..Len(s) |->
          [id              |-> <<salt, project.idx, k>>,
           task_name       |-> <<"task", k>>,
           required_skills |-> FirstTwo(project.required_skills),
           estimated_hours |-> s[k][2],
           phase           |-> CallerPhases[s[k][1]]]] :
      s \in { t \in SeqsUpTo(CallerTaskKinds, MaxTasks) :
                \A i \in 1..(Len(t) - 1) : t[i][1] <= t[i + 1][1] } }

\* variant: a task of an unknown phase is put with the last phase
tasks_by_phase_unknown_last(phase) ==
    SelectSeq(tasks,
              LAMBDA t : \/ t.phase = phase
                         \/ /\ phase = phase_order[Len(phase_order)]
                            /\ \A k \in 1..Len(phase_order) :
                                  t.phase # phase_order[k])

\* tasks_by_phase[phase]
tasks_by_phase(phase) == SelectSeq(tasks, LAMBDA t : t.phase = phase)

phase_tasks == tasks_by_phase(phase_order[phase_idx])

CurrentDeepTask == phase_tasks[task_i]

\* matched / len(task.required_skills) if task.required_skills else 0.3
match_score(task, member) ==
    IF task.required_skills = <<>> THEN <<3, 10>>
    ELSE Norm(<<Cardinality(ToSet(task.required_skills) \cap member.skills),
                Len(task.required_skills)>>)

\* (0.6 * match_score) + (0.4 * workload_score); the candidates of one task
\* never have float sums that differ where the exact sums are equal
deep_combined_score(match, workload) ==
    LET sum == RatAdd(RatMul(<<3, 5>>, match), RatMul(<<2, 5>>, workload))
    IN  <<sum[1], sum[2], 0>>

\* the tuple appended to member_candidates for one member
DeepCandidate(task, m) ==
    LET match    == match_score(task, team_members[m])
        workload == workload_score(m)
    IN  [combined_score |-> deep_combined_score(match, workload),
         match_score    |-> match,
         workload_score |-> workload,
         member         |-> m]

DeepCandidates(task) ==
    StableSortDesc([m \in Members |-> DeepCandidate(task, m)])

\* max(phase_start_week, member_earliest_week[member.name])
deep_start_week(m) == Max(phase_start_week, member_earliest_week[m])

DeepFittingPositions(task, candidates) ==
    {j \in 1..Len(candidates) :
        can_assign(candidates[j].member, deep_start_week(candidates[j].member),
                   duration_weeks(task))}

\* variant: a phase starts where the previous phase started, not where it ended
PhaseStartWeek_always_zero ==
    IF phase_idx = 1 THEN 0 ELSE phase_start_week

\* phase_end_weeks.get(prev_phase, 0), or 0 for the first phase
PhaseStartWeek ==
    IF phase_idx = 1 THEN 0
    ELSE Get(phase_end_weeks, phase_order[phase_idx - 1])

InPhaseLoop ==
    /\ mode = "deepdive"
    /\ pc = "phase"
    /\ phase_idx <= Len(phase_order)

InDeepTaskLoop ==
    /\ mode = "deepdive"
    /\ pc = "task"
    /\ task_i <= Len(phase_tasks)

\* a phase without tasks: continue
SkipPhase ==
    /\ InPhaseLoop
    /\ phase_tasks = <<>>
    /\ phase_idx' = phase_idx + 1
    /\ UNCHANGED <<llm_response, risks, output,
                max_weeks, master, session, mode, team_members, projects, tasks, bandwidth_tracker,
                   member_earliest_week, consecutive_tasks,
                   last_assigned_member, proj_i, task_i, phase_start_week,
                   phase_max_end_week, phase_end_weeks, all_allocations,
                   allocations, member_candidates, console, uuid_salt, runs,
                   pc>>

\* variant: at the start of a phase every cursor is set to the phase start
BeginPhase_resets_cursors ==
    /\ InPhaseLoop
    /\ phase_tasks # <<>>
    /\ phase_start_week' = PhaseStartWeek
    /\ member_earliest_week' = [m \in Members |-> PhaseStartWeek]
    /\ phase_max_end_week' = PhaseStartWeek
    /\ task_i' = 1
    /\ pc' = "task"
    /\ UNCHANGED <<llm_response, risks, output,
                   max_weeks, master, session, mode, team_members, projects, tasks, bandwidth_tracker,
                   consecutive_tasks, last_assigned_member, proj_i, phase_idx,
                   phase_end_weeks, all_allocations, allocations,
                   member_candidates, console, uuid_salt, runs>>

\* a phase with tasks: fix its start week and raise the cursors to it
BeginPhase ==
    /\ InPhaseLoop
    /\ phase_tasks # <<>>
    /\ phase_start_week' = PhaseStartWeek
    /\ member_earliest_week' =
           [m \in Members |-> Max(member_earliest_week[m], PhaseStartWeek)]
    /\ phase_max_end_week' = PhaseStartWeek
    /\ task_i' = 1
    /\ pc' = "task"
    /\ UNCHANGED <<llm_response, risks, output,
                max_weeks, master, session, mode, team_members, projects, tasks, bandwidth_tracker,
                   consecutive_tasks, last_assigned_member, proj_i, phase_idx,
                   phase_end_weeks, all_allocations, allocations,
                   member_candidates, console, uuid_salt, runs>>

\* variant: the new record is put in front of the list
DeepCommit_prepends(task, candidates, m, mark) ==
    \E start_week \in {deep_start_week(m)} :
        /\ member_candidates' = candidates
        /\ all_allocations' =
               <<ResourceAllocation(projects[1], task, m, start_week)>>
                   \o all_allocations
        /\ UpdateTracker(m, start_week, duration_weeks(task))
        /\ member_earliest_week' =
               [member_earliest_week EXCEPT
                   ![m] = start_week + duration_weeks(task)]
        /\ phase_max_end_week' =
               Max(phase_max_end_week, start_week + duration_weeks(task))
        /\ console' = Append(console, mark)
        /\ task_i' = task_i + 1

DeepCommit(task, candidates, m, mark) ==
    \E start_week \in {deep_start_week(m)} :
        /\ member_candidates' = candidates
        /\ all_allocations' =
               Append(all_allocations,
                      ResourceAllocation(projects[1], task, m, start_week))
        /\ UpdateTracker(m, start_week, duration_weeks(task))
        /\ member_earliest_week' =
               [member_earliest_week EXCEPT
                   ![m] = start_week + duration_weeks(task)]
        /\ phase_max_end_week' =
               Max(phase_max_end_week, start_week + duration_weeks(task))
        /\ console' = Append(console, mark)
        /\ task_i' = task_i + 1

DeepFrame ==
    UNCHANGED <<llm_response, risks, output,
                max_weeks, master, session, mode, team_members, projects, tasks, consecutive_tasks,
                last_assigned_member, proj_i, phase_idx, phase_start_week,
                phase_end_weeks, allocations, uuid_salt, runs, pc>>

DeepAssign ==
    /\ InDeepTaskLoop
    /\ \E task \in {CurrentDeepTask} :
       \E candidates \in {DeepCandidates(task)} :
       \E fitting \in {DeepFittingPositions(task, candidates)} :
           /\ fitting # {}
           /\ DeepCommit(task, candidates,
                         candidates[FirstOf(fitting)].member, "assigned")
    /\ DeepFrame

\* fallback: the best candidate even if overallocated
DeepForce ==
    /\ InDeepTaskLoop
    /\ \E task \in {CurrentDeepTask} :
       \E candidates \in {DeepCandidates(task)} :
           /\ DeepFittingPositions(task, candidates) = {}
           /\ candidates # <<>>
           /\ DeepCommit(task, candidates, candidates[1].member,
                         "overallocated")
    /\ DeepFrame

DeepNoCandidate ==
    /\ InDeepTaskLoop
    /\ team_members = <<>>
    /\ task_i' = task_i + 1
    /\ member_candidates' = <<>>
    /\ UNCHANGED <<all_allocations, bandwidth_tracker, member_earliest_week,
                   phase_max_end_week, console>>
    /\ DeepFrame

\* phase_end_weeks[phase] = phase_max_end_week
EndPhase ==
    /\ mode = "deepdive"
    /\ pc = "task"
    /\ task_i > Len(phase_tasks)
    /\ phase_end_weeks' =
           [ph \in (DOMAIN phase_end_weeks) \cup {phase_order[phase_idx]} |->
               IF ph = phase_order[phase_idx] THEN phase_max_end_week
               ELSE phase_end_weeks[ph]]
    /\ phase_idx' = phase_idx + 1
    /\ pc' = "phase"
    /\ UNCHANGED <<llm_response, risks, output,
                max_weeks, master, session, mode, team_members, projects, tasks, bandwidth_tracker,
                   member_earliest_week, consecutive_tasks,
                   last_assigned_member, proj_i, task_i, phase_start_week,
                   phase_max_end_week, all_allocations, allocations,
                   member_candidates, console, uuid_salt, runs>>

(***************************************************************************)
(* Start and end of a call                                                 *)
(***************************************************************************)
EmptyDict == [w \in {} |-> 0]

\* an agent constructed directly, without a MasterManagerAgent
NoMaster ==
    [step               |-> "none",
     projects           |-> <<>>,
     deep_dive_projects |-> {},
     deep_dive_queue    |-> <<>>,
     steps_run          |-> <<>>]

\* an agent used without the Streamlit front end
NoSession ==
    [page             |-> "none",
     team_members     |-> 0,
     projects         |-> 0,
     api_key          |-> "",
     analyses         |-> 0,
     results          |-> <<>>,
     analysis_results |-> <<>>,
     message          |-> "none"]

\* the locals set up at the top of allocate_resources / allocate_tasks
FreshLocals(roster, m) ==
    /\ bandwidth_tracker = [i \in 1..Len(roster) |-> EmptyDict]
    /\ member_earliest_week = [i \in 1..Len(roster) |-> 0]
    /\ consecutive_tasks = [i \in 1..Len(roster) |-> 0]
    /\ last_assigned_member = 0
    /\ proj_i = 1
    /\ task_i = 1
    /\ phase_idx = 1
    /\ phase_start_week = 0
    /\ phase_max_end_week = 0
    /\ phase_end_weeks = EmptyDict
    /\ all_allocations = <<>>
    /\ member_candidates = <<>>
    /\ pc = IF m = "portfolio" THEN "run" ELSE "phase"

InitPortfolio ==
    /\ mode = "portfolio"
    /\ team_members \in Rosters
    /\ \E input \in ProjectLists : projects = SortByPriority(input)
    /\ tasks = <<>>

\* DeepDiveAgent(project, team_members, tasks): one project, whose priority
\* and duration the deep-dive never reads; its tasks are the 22 of the
\* template or a list given by the caller.  The project requires at most
\* one distinct skill (a list that repeats its skill goes with the template
\* only), so a person holds all of a task's skills or none of them.
InitDeepDive ==
    /\ mode = "deepdive"
    /\ team_members \in {r \in Rosters : \A i \in 1..Len(r) : r[i].name # ""}
    /\ \E input \in ProjectLists :
          /\ Len(input) = 1
          /\ Cardinality(ToSet(input[1].required_skills)) <= 1
          /\ projects = input
          /\ tasks \in {create_detailed_tasks(input[1], 1)}
                           \cup IF Len(input[1].required_skills) <= 1
                                THEN CallerTaskLists(input[1], 1)
                                ELSE {}

Init ==
    /\ InitPortfolio \/ InitDeepDive
    /\ FreshLocals(team_members, mode)
    /\ allocations = <<>>
    /\ console = <<>>
    /\ uuid_salt = 1
    /\ runs = 1
    /\ llm_response = <<>>
    /\ risks = <<>>
    /\ output = <<>>
    /\ max_weeks = default_max_weeks
    /\ master = NoMaster
    /\ session = NoSession

\* self.allocations = allocations; return allocations
Finish ==
    /\ \/ mode = "portfolio" /\ pc = "run" /\ proj_i > Len(projects)
       \/ mode = "deepdive" /\ pc = "phase" /\ phase_idx > Len(phase_order)
    /\ allocations' = all_allocations
    /\ pc' = "done"
    /\ UNCHANGED <<llm_response, risks, output,
                max_weeks, master, session, mode, team_members, projects, tasks, bandwidth_tracker,
                   member_earliest_week, consecutive_tasks,
                   last_assigned_member, proj_i, task_i, phase_idx,
                   phase_start_week, phase_max_end_week, phase_end_weeks,
                   all_allocations, member_candidates, console, uuid_salt,
                   runs>>

\* variant: the cursors survive from the previous call
Rerun_keeps_cursors ==
    /\ pc = "done"
    /\ master = NoMaster
    /\ runs < MaxRuns
    /\ runs' = runs + 1
    /\ uuid_salt' = IF mode = "portfolio" THEN runs + 1 ELSE uuid_salt
    /\ bandwidth_tracker' = [i \in Members |-> EmptyDict]
    /\ consecutive_tasks' = [i \in Members |-> 0]
    /\ last_assigned_member' = 0
    /\ proj_i' = 1
    /\ task_i' = 1
    /\ phase_idx' = 1
    /\ phase_start_week' = 0
    /\ phase_max_end_week' = 0
    /\ phase_end_weeks' = EmptyDict
    /\ all_allocations' = <<>>
    /\ member_candidates' = <<>>
    /\ console' = <<>>
    /\ pc' = IF mode = "portfolio" THEN "run" ELSE "phase"
    /\ UNCHANGED <<llm_response, risks, output,
                max_weeks, master, session, mode, team_members, projects, tasks, allocations,
                   member_earliest_week>>

\* the same agent is run again: every local is created afresh, and the
\* portfolio run creates its tasks anew, with new ids
Rerun ==
    /\ pc = "done"
    /\ master = NoMaster
    /\ runs < MaxRuns
    /\ runs' = runs + 1
    /\ uuid_salt' = IF mode = "portfolio" THEN runs + 1 ELSE uuid_salt
    /\ bandwidth_tracker' = [i \in Members |-> EmptyDict]
    /\ member_earliest_week' = [i \in Members |-> 0]
    /\ consecutive_tasks' = [i \in Members |-> 0]
    /\ last_assigned_member' = 0
    /\ proj_i' = 1
    /\ task_i' = 1
    /\ phase_idx' = 1
    /\ phase_start_week' = 0
    /\ phase_max_end_week' = 0
    /\ phase_end_weeks' = EmptyDict
    /\ all_allocations' = <<>>
    /\ member_candidates' = <<>>
    /\ console' = <<>>
    /\ pc' = IF mode = "portfolio" THEN "run" ELSE "phase"
    /\ UNCHANGED <<llm_response, risks, output,
                max_weeks, master, session, mode, team_members, projects, tasks, allocations>>

(***************************************************************************)
(* execute(): the steps after the allocation call                          *)
(***************************************************************************)
RECURSIVE SumCosts(_)
\* sum(a.estimated_cost for a in allocations)
SumCosts(allocs) ==
    IF allocs = <<>> THEN 0
    ELSE allocs[Len(allocs)].estimated_cost
             + SumCosts(SubSeq(allocs, 1, Len(allocs) - 1))

RECURSIVE MaxEndWeek(_)
\* max([a.end_week for a in allocations]) if allocations else 0
MaxEndWeek(allocs) ==
    IF allocs = <<>> THEN 0
    ELSE Max(allocs[Len(allocs)].end_week,
             MaxEndWeek(SubSeq(allocs, 1, Len(allocs) - 1)))

\* generate_charts with an empty roster: util_df = pd.DataFrame([]) has no
\* column 'Member', and util_df['Member'] raises KeyError out of execute()
PortfolioChartsRaise ==
    /\ mode = "portfolio"
    /\ pc = "done"
    /\ team_members = <<>>
    /\ pc' = "raised"
    /\ UNCHANGED <<max_weeks, master, session, mode, team_members, projects,
                   tasks, bandwidth_tracker, member_earliest_week,
                   consecutive_tasks, last_assigned_member, proj_i, task_i,
                   phase_idx, phase_start_week, phase_max_end_week,
                   phase_end_weeks, all_allocations, allocations,
                   member_candidates, console, uuid_salt, runs, llm_response,
                   risks, output>>

\* PortfolioManagerAgent.execute after allocate_resources and
\* generate_charts: the data of the AgentOutput (team_utilization is the
\* literal 78)
PortfolioSummary ==
    /\ mode = "portfolio"
    /\ pc = "done"
    /\ team_members # <<>>
    /\ output' = << [agent_name        |-> "Portfolio Manager",
                     projects_count    |-> Len(projects),
                     team_size         |-> Len(team_members),
                     total_allocations |-> Len(allocations),
                     total_cost        |-> SumCosts(allocations),
                     timeline_weeks    |-> MaxEndWeek(allocations),
                     team_utilization  |-> team_utilization] >>
    /\ pc' = "returned"
    /\ UNCHANGED <<max_weeks, master, session, mode, team_members, projects, tasks, bandwidth_tracker,
                   member_earliest_week, consecutive_tasks,
                   last_assigned_member, proj_i, task_i, phase_idx,
                   phase_start_week, phase_max_end_week, phase_end_weeks,
                   all_allocations, allocations, member_candidates, console,
                   uuid_salt, runs, llm_response, risks>>

\* What self.llm.invoke(prompt) can do: raise, or return a text.  A text is
\* the list of its lines after the numbering is stripped; a line is
\* <<length, has a letter>>.
LlmLines == {<<21, TRUE>>, <<20, TRUE>>}

LlmResponses ==
    {[raises |-> TRUE, lines |-> <<>>]}
        \cup {[raises |-> FALSE, lines |-> l] : l \in SeqsUpTo(LlmLines, MaxLines)}

\* len(line_clean) > 20 and any(c.isalpha() for c in line_clean)
Substantial(line) == line[1] > 20 /\ line[2]

\* the loop over the lines: the first three substantial lines, each written
\* <<"llm", position of the line>>
ParsedRisks(lines) ==
    LET kept == SelectSeq([i \in 1..Len(lines) |-> <<"llm", i>>],
                          LAMBDA r : Substantial(lines[r[2]]))
    IN  SubSeq(kept, 1, IF Len(kept) < 3 THEN Len(kept) ELSE 3)

\* three static texts chosen by the project's duration, budget and number of
\* required skills, each written <<"static", text>>; every project of the
\* model has the default budget
_get_fast_risk_fallback(project) ==
    << <<"static", IF project.estimated_duration_weeks <= 8
                   THEN "Tight timeline" ELSE "Extended timeline">>,
       <<"static", IF default_budget < 100000
                   THEN "Limited budget" ELSE "Budget management">>,
       <<"static", IF Len(project.required_skills) > 5
                   THEN "Multiple specialized skill requirements"
                   ELSE "Specialized skills availability">> >>

\* DeepDiveAgent.execute calls create_detailed_tasks before allocate_tasks:
\* the steps of execute follow a run over the tasks of the template
InExecute ==
    /\ mode = "deepdive"
    /\ tasks = create_detailed_tasks(projects[1], uuid_salt)

\* variant: a single parsed risk is enough to do without the fallback
assess_risks_accepts_one ==
    /\ InExecute
    /\ pc = "done"
    /\ \E response \in LlmResponses :
          /\ llm_response' = <<response>>
          /\ risks' =
                 IF response.raises
                 THEN _get_fast_risk_fallback(projects[1])
                 ELSE IF Len(ParsedRisks(response.lines)) >= 1
                      THEN ParsedRisks(response.lines)
                      ELSE _get_fast_risk_fallback(projects[1])
    /\ pc' = "assessed"
    /\ UNCHANGED <<max_weeks, master, session, mode, team_members, projects, tasks, bandwidth_tracker,
                   member_earliest_week, consecutive_tasks,
                   last_assigned_member, proj_i, task_i, phase_idx,
                   phase_start_week, phase_max_end_week, phase_end_weeks,
                   all_allocations, allocations, member_candidates, console,
                   uuid_salt, runs, output>>

\* try: parse the response; at least 2 risks are returned as they are,
\* fewer, or an exception, give the fallback
assess_risks ==
    /\ InExecute
    /\ pc = "done"
    /\ \E response \in LlmResponses :
          /\ llm_response' = <<response>>
          /\ risks' =
                 IF response.raises
                 THEN _get_fast_risk_fallback(projects[1])
                 ELSE IF Len(ParsedRisks(response.lines)) >= 2
                      THEN ParsedRisks(response.lines)
                      ELSE _get_fast_risk_fallback(projects[1])
    /\ pc' = "assessed"
    /\ UNCHANGED <<max_weeks, master, session, mode, team_members, projects, tasks, bandwidth_tracker,
                   member_earliest_week, consecutive_tasks,
                   last_assigned_member, proj_i, task_i, phase_idx,
                   phase_start_week, phase_max_end_week, phase_end_weeks,
                   all_allocations, allocations, member_candidates, console,
                   uuid_salt, runs, output>>

\* DeepDiveAgent.execute after assess_risks: the data of the AgentOutput
DeepSummary ==
    /\ InExecute
    /\ pc = "assessed"
    /\ output' = << [agent_name       |-> "Deep Dive Agent",
                     total_tasks      |-> Len(tasks),
                     total_cost       |-> SumCosts(allocations),
                     timeline_weeks   |-> MaxEndWeek(allocations),
                     risks_identified |-> Len(risks),
                     risks            |-> risks,
                     allocations      |-> allocations] >>
    /\ pc' = "returned"
    /\ UNCHANGED <<max_weeks, master, session, mode, team_members, projects, tasks, bandwidth_tracker,
                   member_earliest_week, consecutive_tasks,
                   last_assigned_member, proj_i, task_i, phase_idx,
                   phase_start_week, phase_max_end_week, phase_end_weeks,
                   all_allocations, allocations, member_candidates, console,
                   uuid_salt, runs, llm_response, risks>>

Next ==
    \/ PortfolioAssign
    \/ PortfolioForce
    \/ PortfolioNoCandidate
    \/ SkipPhase
    \/ BeginPhase
    \/ DeepAssign
    \/ DeepForce
    \/ DeepNoCandidate
    \/ EndPhase
    \/ Finish
    \/ PortfolioChartsRaise
    \/ PortfolioSummary
    \/ assess_risks
    \/ DeepSummary

\* one call of allocate_resources / allocate_tasks on a new agent
Spec == Init /\ [][Next]_vars

NextRerun ==
    \/ Next
    \/ Rerun

\* the rosters of the repeated runs have no empty name: a repeated call
\* reads the names as the first call does
InitRerun ==
    /\ Init
    /\ \A i \in Members : team_members[i].name # ""

\* the agent may be run again after it has finished
SpecRerun == InitRerun /\ [][NextRerun]_vars

(***************************************************************************)
(* MasterManagerAgent.execute_complete_workflow                            *)
(***************************************************************************)
MaxWorkflowProjects == 3

\* config['max_weeks'] of the masters of the model
configured_max_weeks == 8

\* the projects given to a master: priority 1 or 2, one required skill,
\* tasks of 40 hours; a project's name is its position in the list
WorkflowProject ==
    [priority : {1, 2},
     required_skills : {<<"python">>},
     estimated_duration_weeks : {5}]

WorkflowProjectLists ==
    { [i \in 1..Len(s) |-> [idx |-> i,
                            priority |-> s[i].priority,
                            required_skills |-> s[i].required_skills,
                            estimated_duration_weeks |->
                                s[i].estimated_duration_weeks]] :
      s \in SeqsUpTo(WorkflowProject, MaxWorkflowProjects) }

\* the rosters given to a master: nobody, or one named person with the
\* skill of the projects and a capacity of 100
WorkflowRosters ==
    {r \in Rosters :
        /\ Len(r) <= 1
        /\ \A i \in 1..Len(r) :
              /\ r[i].name # ""
              /\ "python" \in r[i].skills
              /\ r[i].total_bandwidth_percent = 100}

\* config['deep_dive_projects'] of the masters: at most two names
MaxDeepDiveNames == 2

\* MasterManagerAgent(team_members, projects, config, llm): config holds
\* 'deep_dive_projects', a list of project names, and 'max_weeks'
InitMaster ==
    /\ mode = "master"
    /\ team_members \in WorkflowRosters
    /\ projects = <<>>
    /\ tasks = <<>>
    /\ \E input \in WorkflowProjectLists :
       \E names \in {n \in SUBSET (1..Len(input)) :
                         Cardinality(n) <= MaxDeepDiveNames} :
           master = [step               |-> "constructed",
                     projects           |-> input,
                     deep_dive_projects |-> names,
                     deep_dive_queue    |-> <<>>,
                     steps_run          |-> <<>>]
    /\ max_weeks = configured_max_weeks
    /\ FreshLocals(team_members, "portfolio")
    /\ allocations = <<>>
    /\ console = <<>>
    /\ uuid_salt = 1
    /\ runs = 1
    /\ llm_response = <<>>
    /\ risks = <<>>
    /\ output = <<>>
    /\ session = NoSession

\* the locals of a newly constructed agent whose execute() has been entered
NewAgent(agent_mode) ==
    /\ mode' = agent_mode
    /\ bandwidth_tracker' = [i \in Members |-> EmptyDict]
    /\ member_earliest_week' = [i \in Members |-> 0]
    /\ consecutive_tasks' = [i \in Members |-> 0]
    /\ last_assigned_member' = 0
    /\ proj_i' = 1
    /\ task_i' = 1
    /\ phase_idx' = 1
    /\ phase_start_week' = 0
    /\ phase_max_end_week' = 0
    /\ phase_end_weeks' = EmptyDict
    /\ all_allocations' = <<>>
    /\ allocations' = <<>>
    /\ member_candidates' = <<>>
    /\ console' = <<>>
    /\ runs' = 1
    /\ llm_response' = <<>>
    /\ risks' = <<>>
    /\ output' = <<>>
    /\ pc' = IF agent_mode = "portfolio" THEN "run" ELSE "phase"

StepRun(step, project) == [step |-> step, project |-> project]

\* Step 1: PortfolioManagerAgent(self.team_members, self.projects, ...) is
\* constructed and its execute() is entered
execute_portfolio_management ==
    /\ master.step = "constructed"
    /\ NewAgent("portfolio")
    /\ projects' = SortByPriority(master.projects)
    /\ master' = [master EXCEPT
                     !.step = "portfolio",
                     !.steps_run = Append(@, StepRun("portfolio", 0))]
    /\ UNCHANGED <<team_members, tasks, uuid_salt, max_weeks, session>>

\* a selection that takes the first two projects of the list whatever their
\* priority when the config names no project
deep_dive_projects_first_two ==
    IF master.deep_dive_projects = {}
    THEN SubSeq(master.projects, 1,
                IF Len(master.projects) < 2 THEN Len(master.projects) ELSE 2)
    ELSE SelectSeq(master.projects,
                   LAMBDA p : p.idx \in master.deep_dive_projects)

\* [p for p in self.projects if p.priority == 1][:2] when the config names
\* no project, else [p for p in self.projects if p.name in deep_dive_names]
deep_dive_projects ==
    IF master.deep_dive_projects = {}
    THEN LET first == SelectSeq(master.projects, LAMBDA p : p.priority = 1)
         IN  SubSeq(first, 1, IF Len(first) < 2 THEN Len(first) ELSE 2)
    ELSE SelectSeq(master.projects,
                   LAMBDA p : p.idx \in master.deep_dive_projects)

\* Step 2 begins once the portfolio agent has returned: the projects of the
\* deep dive are selected
execute_deep_dive_analysis ==
    /\ master.step = "portfolio"
    /\ pc = "returned"
    /\ master' = [master EXCEPT
                     !.step = "deep_dive",
                     !.deep_dive_queue = deep_dive_projects]
    /\ UNCHANGED <<mode, team_members, projects, tasks, bandwidth_tracker,
                   member_earliest_week, consecutive_tasks,
                   last_assigned_member, proj_i, task_i, phase_idx,
                   phase_start_week, phase_max_end_week, phase_end_weeks,
                   all_allocations, allocations, member_candidates, console,
                   uuid_salt, runs, llm_response, risks, output, max_weeks,
                   session, pc>>

\* a loop body whose agent keeps working on the ledger and the cursors of
\* the agent that ran before it
deep_dive_agent_shares_ledger ==
    /\ master.step = "deep_dive"
    /\ master.deep_dive_queue # <<>>
    /\ pc = "returned"
    /\ mode' = "deepdive"
    /\ proj_i' = 1
    /\ task_i' = 1
    /\ phase_idx' = 1
    /\ phase_start_week' = 0
    /\ phase_max_end_week' = 0
    /\ phase_end_weeks' = EmptyDict
    /\ all_allocations' = <<>>
    /\ allocations' = <<>>
    /\ member_candidates' = <<>>
    /\ console' = <<>>
    /\ runs' = 1
    /\ llm_response' = <<>>
    /\ risks' = <<>>
    /\ output' = <<>>
    /\ pc' = "phase"
    /\ projects' = <<Head(master.deep_dive_queue)>>
    /\ uuid_salt' = uuid_salt + 1
    /\ tasks' = create_detailed_tasks(Head(master.deep_dive_queue),
                                      uuid_salt + 1)
    /\ master' = [master EXCEPT
                     !.deep_dive_queue = Tail(@),
                     !.steps_run =
                         Append(@, StepRun("deep_dive",
                                           Head(master.deep_dive_queue).idx))]
    /\ UNCHANGED <<team_members, max_weeks, session, bandwidth_tracker,
                   member_earliest_week, consecutive_tasks,
                   last_assigned_member>>

\* the body of the loop over the selected projects: DeepDiveAgent(project,
\* self.team_members, self.llm) is constructed and its execute() is entered,
\* which creates the 22 tasks first
deep_dive_agent ==
    /\ master.step = "deep_dive"
    /\ master.deep_dive_queue # <<>>
    /\ pc = "returned"
    /\ NewAgent("deepdive")
    /\ projects' = <<Head(master.deep_dive_queue)>>
    /\ uuid_salt' = uuid_salt + 1
    /\ tasks' = create_detailed_tasks(Head(master.deep_dive_queue),
                                      uuid_salt + 1)
    /\ master' = [master EXCEPT
                     !.deep_dive_queue = Tail(@),
                     !.steps_run =
                         Append(@, StepRun("deep_dive",
                                           Head(master.deep_dive_queue).idx))]
    /\ UNCHANGED <<team_members, max_weeks, session>>

\* Step 3, after the last deep dive has returned; the training agent reads
\* the roster and the projects only and catches the failures of its calls
execute_training_recommendations ==
    /\ master.step = "deep_dive"
    /\ master.deep_dive_queue = <<>>
    /\ pc = "returned"
    /\ master' = [master EXCEPT
                     !.step = "training",
                     !.steps_run = Append(@, StepRun("training", 0))]
    /\ UNCHANGED <<mode, team_members, projects, tasks, bandwidth_tracker,
                   member_earliest_week, consecutive_tasks,
                   last_assigned_member, proj_i, task_i, phase_idx,
                   phase_start_week, phase_max_end_week, phase_end_weeks,
                   all_allocations, allocations, member_candidates, console,
                   uuid_salt, runs, llm_response, risks, output, max_weeks,
                   session, pc>>

\* the summary is printed and the workflow returns its results
generate_executive_summary ==
    /\ master.step = "training"
    /\ master' = [master EXCEPT
                     !.step = "complete",
                     !.steps_run = Append(@, StepRun("summary", 0))]
    /\ UNCHANGED <<mode, team_members, projects, tasks, bandwidth_tracker,
                   member_earliest_week, consecutive_tasks,
                   last_assigned_member, proj_i, task_i, phase_idx,
                   phase_start_week, phase_max_end_week, phase_end_weeks,
                   all_allocations, allocations, member_candidates, console,
                   uuid_salt, runs, llm_response, risks, output, max_weeks,
                   session, pc>>

NextWorkflow ==
    \/ NextRerun
    \/ execute_portfolio_management
    \/ execute_deep_dive_analysis
    \/ deep_dive_agent
    \/ execute_training_recommendations
    \/ generate_executive_summary

\* an agent constructed directly by a caller, with a roster of at most one
\* person
InitAgent ==
    /\ InitRerun
    /\ Len(team_members) <= 1

InitWorkflow == InitAgent \/ InitMaster

\* agents run on their own, rerun on their own, or driven by a master
SpecWorkflow == InitWorkflow /\ [][NextWorkflow]_vars

(***************************************************************************)
(* The Streamlit front end: streamlit_app.py and run_analysis_for_streamlit *)
(***************************************************************************)
\* the longest lists of team members and of projects of a session
MaxSessionItems == 2

\* the most analyses invoked in a session
MaxAnalyses == 2

agent_vars ==
    <<mode, team_members, projects, tasks, bandwidth_tracker,
      member_earliest_week, consecutive_tasks, last_assigned_member, proj_i,
      task_i, phase_idx, phase_start_week, phase_max_end_week,
      phase_end_weeks, all_allocations, allocations, member_candidates,
      console, uuid_salt, runs, llm_response, risks, output, max_weeks,
      master, pc>>

pages == {"Home", "Team Input", "Project Input", "Run Analysis", "Dashboard"}

\* the session state of a new browser session; the lists are kept by their
\* lengths, analysis_results None is <<>>. No agent exists.
InitFrontEnd ==
    /\ session = [NoSession EXCEPT !.page = "Home"]
    /\ mode = "frontend"
    /\ team_members = <<>>
    /\ projects = <<>>
    /\ tasks = <<>>
    /\ bandwidth_tracker = <<>>
    /\ member_earliest_week = <<>>
    /\ consecutive_tasks = <<>>
    /\ last_assigned_member = 0
    /\ proj_i = 1
    /\ task_i = 1
    /\ phase_idx = 1
    /\ phase_start_week = 0
    /\ phase_max_end_week = 0
    /\ phase_end_weeks = EmptyDict
    /\ all_allocations = <<>>
    /\ allocations = <<>>
    /\ member_candidates = <<>>
    /\ console = <<>>
    /\ uuid_salt = 1
    /\ runs = 1
    /\ llm_response = <<>>
    /\ risks = <<>>
    /\ output = <<>>
    /\ max_weeks = default_max_weeks
    /\ master = NoMaster
    /\ pc = "page"

\* a button of the sidebar: the page is shown anew, its text inputs empty
sidebar ==
    /\ \E page \in pages :
          session' = [session EXCEPT
                         !.page = page, !.api_key = "", !.message = "none"]
    /\ UNCHANGED agent_vars

\* "Add Team Member" with the required fields filled in, removal of the
\* selected member, "Clear All"
page_team_input ==
    /\ session.page = "Team Input"
    /\ \/ /\ session.team_members < MaxSessionItems
          /\ session' = [session EXCEPT !.team_members = @ + 1]
       \/ /\ session.team_members > 0
          /\ session' = [session EXCEPT !.team_members = @ - 1]
       \/ /\ session.team_members > 0
          /\ session' = [session EXCEPT !.team_members = 0]
    /\ UNCHANGED agent_vars

\* "Add Project" with the required fields filled in, removal of the selected
\* project, "Clear All"
page_project_input ==
    /\ session.page = "Project Input"
    /\ \/ /\ session.projects < MaxSessionItems
          /\ session' = [session EXCEPT !.projects = @ + 1]
       \/ /\ session.projects > 0
          /\ session' = [session EXCEPT !.projects = @ - 1]
       \/ /\ session.projects > 0
          /\ session' = [session EXCEPT !.projects = 0]
    /\ UNCHANGED agent_vars

\* the page of the analysis shows its form only when both lists have entries
FormShown ==
    /\ session.page = "Run Analysis"
    /\ ~ (session.team_members = 0 \/ session.projects = 0)

\* the text input "Groq API Key"
text_input_api_key ==
    /\ FormShown
    /\ \E api_key \in {"", "gsk"} :
          /\ api_key # session.api_key
          /\ session' = [session EXCEPT !.api_key = api_key]
    /\ UNCHANGED agent_vars

\* the steps of run_analysis_for_streamlit that can raise
failing_steps == {"none", "initialize_llm", "run_multi_agent_system"}

\* run_analysis_for_streamlit: the whole body is inside try, and the except
\* clause returns the error result; analysis stands for the timestamp
run_analysis_for_streamlit(failing_step, analysis) ==
    IF failing_step = "none"
    THEN [status |-> "success", error |-> "none", analysis |-> analysis]
    ELSE [status |-> "error", error |-> failing_step, analysis |-> analysis]

\* a handler that stores whatever the analysis returned
page_run_analysis_stores_any ==
    /\ FormShown
    /\ session.analyses < MaxAnalyses
    /\ IF session.api_key = ""
       THEN session' = [session EXCEPT !.message = "api key"]
       ELSE \E failing_step \in failing_steps :
               LET results == run_analysis_for_streamlit(
                                  failing_step, session.analyses + 1)
               IN  session' = [session EXCEPT
                                  !.analyses = @ + 1,
                                  !.results = <<results>>,
                                  !.analysis_results = <<results>>,
                                  !.message = "complete"]
    /\ UNCHANGED agent_vars

\* the button "Run AI Analysis"
page_run_analysis ==
    /\ FormShown
    /\ session.analyses < MaxAnalyses
    /\ IF session.api_key = ""
       THEN session' = [session EXCEPT !.message = "api key"]
       ELSE \E failing_step \in failing_steps :
               LET results == run_analysis_for_streamlit(
                                  failing_step, session.analyses + 1)
               IN  session' =
                       IF results.status = "success"
                       THEN [session EXCEPT
                                !.analyses = @ + 1,
                                !.results = <<results>>,
                                !.analysis_results = <<results>>,
                                !.message = "complete"]
                       ELSE [session EXCEPT
                                !.analyses = @ + 1,
                                !.results = <<results>>,
                                !.message = "failed"]
    /\ UNCHANGED agent_vars

\* the dashboard shows the results when there are any
DashboardShown ==
    /\ session.page = "Dashboard"
    /\ session.analysis_results # <<>>

\* the button "Run New Analysis" of the dashboard
page_dashboard ==
    /\ DashboardShown
    /\ session' = [session EXCEPT
                      !.analysis_results = <<>>,
                      !.page = "Run Analysis",
                      !.api_key = "",
                      !.message = "none"]
    /\ UNCHANGED agent_vars

NextFrontEnd ==
    \/ sidebar
    \/ page_team_input
    \/ page_project_input
    \/ text_input_api_key
    \/ page_run_analysis
    \/ page_dashboard

SpecFrontEnd == InitFrontEnd /\ [][NextFrontEnd]_vars

(***************************************************************************)
(* Properties                                                              *)
(***************************************************************************)
Allocated == 1..Len(all_allocations)

Weeks(a) == a.start_week..(a.end_week - 1)

\* the i-th assignment of the running call went through the fallback
Forced(i) == console[i] = "overallocated"

ForcedCovers(m, week) ==
    \E i \in Allocated :
        /\ Forced(i)
        /\ all_allocations[i].team_member = m
        /\ week \in Weeks(all_allocations[i])

\* the loops of the running call are exhausted, the result not yet stored
RunComplete ==
    \/ mode = "portfolio" /\ pc = "run" /\ proj_i > Len(projects)
    \/ mode = "deepdive" /\ pc = "phase" /\ phase_idx > Len(phase_order)

\* the tasks handed to the run
InputTasks ==
    IF mode = "portfolio"
    THEN {_create_portfolio_tasks(projects[i])[k] :
             i \in 1..Len(projects), k \in 1..Len(phases)}
    ELSE ToSet(tasks)

AllocationsOf(task) ==
    {i \in 1..Len(allocations) : allocations[i].task = task}

PhaseIndex(phase) == CHOOSE k \in 1..Len(phase_order) : phase_order[k] = phase

\* C1: in every state of a run, for every person and week, if no forced
\* assignment of that person covers the week then the bandwidth committed in
\* the ledger for that week is at most the person's total capacity.
C1_CapacityInvariant ==
    \A m \in Members :
        \A week \in DOMAIN bandwidth_tracker[m] :
            ~ ForcedCovers(m, week)
                => bandwidth_tracker[m][week]
                       <= team_members[m].total_bandwidth_percent

\* a normal assignment has filled a week exactly up to the person's capacity
\* while another person of the roster lacks the capacity for any task
C1_Witness ==
    \E m \in Members :
        /\ \E week \in DOMAIN bandwidth_tracker[m] :
              /\ ~ ForcedCovers(m, week)
              /\ bandwidth_tracker[m][week]
                     = team_members[m].total_bandwidth_percent
        /\ \E n \in Members :
              team_members[n].total_bandwidth_percent < bandwidth_needed

\* C2 (as claimed): when a run has finished, every input task is referenced
\* by exactly one allocation of the output list.
C2_ExactlyOneAllocationPerTask ==
    pc = "done" =>
        \A task \in InputTasks : Cardinality(AllocationsOf(task)) = 1

\* C3: in a deep-dive run every allocation of a phase-k task (k > 0) starts
\* at or after the end week of every allocation of a phase k-1 task.
C3_PhaseOrdering ==
    mode = "deepdive" =>
        \A i, j \in Allocated :
            PhaseIndex(all_allocations[j].task.phase)
                = PhaseIndex(all_allocations[i].task.phase) + 1
            => all_allocations[j].start_week >= all_allocations[i].end_week

\* a task of the next phase went to a person without earlier work, whose
\* cursor was raised to the end of the previous phase
C3_Witness ==
    /\ mode = "deepdive"
    /\ \E i, j \in Allocated :
          /\ PhaseIndex(all_allocations[j].task.phase)
                 = PhaseIndex(all_allocations[i].task.phase) + 1
          /\ all_allocations[j].team_member # all_allocations[i].team_member
          /\ all_allocations[j].start_week = all_allocations[i].end_week
          /\ all_allocations[j].start_week > 0
          /\ \A k \in Allocated :
                all_allocations[k].team_member
                    = all_allocations[j].team_member => k >= j

\* the roster and project of the end-to-end scenario: A has {python} and
\* capacity 100, B has {java} and capacity 50, one project of priority 1
\* requiring {python} whose five tasks take 2 weeks each
Scenario ==
    /\ mode = "portfolio"
    /\ team_members =
           << [name |-> "A", skills |-> {"python"},
               total_bandwidth_percent |-> 100,
               hourly_rate |-> default_hourly_rate],
              [name |-> "B", skills |-> {"java"},
               total_bandwidth_percent |-> 50,
               hourly_rate |-> default_hourly_rate] >>
    /\ projects =
           << [idx |-> 1, priority |-> 1, required_skills |-> <<"python">>,
               estimated_duration_weeks |-> 5] >>

ScenarioOutcome(members, starts) ==
    /\ \A i \in Allocated :
          /\ all_allocations[i].task.phase = phases[i]
          /\ all_allocations[i].team_member = members[i]
          /\ all_allocations[i].start_week = starts[i]
          /\ all_allocations[i].end_week = starts[i] + 2
    /\ RunComplete => Len(all_allocations) = Len(phases)

\* C4 (as claimed): in the scenario all five tasks go to A, in phase order,
\* with start weeks 0, 2, 4, 6, 8, and none to B.
C4_AllToA ==
    Scenario => ScenarioOutcome(<<1, 1, 1, 1, 1>>, <<0, 2, 4, 6, 8>>)

\* C4 (amended): in the scenario Planning, Design, Testing and Deployment go
\* to A with start weeks 0, 2, 4, 6 and Development goes to B with start
\* week 0.
C4_ThirdTaskToB ==
    Scenario => ScenarioOutcome(<<1, 1, 2, 1, 1>>, <<0, 2, 0, 4, 6>>)

C4_Witness ==
    /\ Scenario
    /\ RunComplete
    /\ Len(all_allocations) = Len(phases)

\* C5 (as claimed): a second run on the same inputs produces the same list
\* of allocation records, task identifiers included.
C5_IdenticalRuns ==
    (runs >= 2 /\ RunComplete) => all_allocations = allocations

WithoutTaskId(a) ==
    [project             |-> a.project,
     task_name           |-> a.task.task_name,
     required_skills     |-> a.task.required_skills,
     estimated_hours     |-> a.task.estimated_hours,
     phase               |-> a.task.phase,
     team_member         |-> a.team_member,
     start_week          |-> a.start_week,
     end_week            |-> a.end_week,
     allocated_bandwidth |-> a.allocated_bandwidth,
     estimated_cost      |-> a.estimated_cost]

\* C5 (amended): a second run on the same inputs produces the same list of
\* allocations in the same order, up to the identifiers of the tasks.
C5_IdenticalUpToTaskIds ==
    (runs >= 2 /\ RunComplete) =>
        /\ Len(all_allocations) = Len(allocations)
        /\ \A i \in Allocated :
              WithoutTaskId(all_allocations[i]) = WithoutTaskId(allocations[i])

\* a second portfolio run over two persons has finished with new task ids
C5_Witness ==
    /\ runs >= 2
    /\ RunComplete
    /\ mode = "portfolio"
    /\ Len(all_allocations) >= Len(phases)
    /\ all_allocations # allocations
    /\ \E i \in Allocated : all_allocations[i].team_member = 2

\* what a reader of the output can see of an overallocation: a marker field
\* of the allocation record
MarkedOverallocated(a) ==
    /\ "overallocated" \in DOMAIN a
    /\ a["overallocated"] = TRUE

\* C6 (as claimed): every allocation made through the fallback is marked as
\* an overallocation in the emitted record.
C6_ForcedIsMarked ==
    \A i \in Allocated : Forced(i) => MarkedOverallocated(all_allocations[i])

\* C7 (as claimed): a run on an empty roster or an empty project list never
\* completes normally.
C7_EmptyInputRejected ==
    (team_members = <<>> \/ projects = <<>>) => pc # "done"

\* C8 (as claimed): a task of zero estimated hours never yields an
\* allocation.
C8_ZeroHoursRejected ==
    \A i \in Allocated : all_allocations[i].task.estimated_hours # 0

\* C8 (amended): a task of zero estimated hours is allocated like any other:
\* its allocation lasts one week and costs nothing, and when the run has
\* finished with a non-empty roster every zero-hour task of a known phase
\* has exactly one allocation.
C8_ZeroHoursAllocated ==
    /\ \A i \in Allocated :
          all_allocations[i].task.estimated_hours = 0
          => /\ all_allocations[i].end_week
                    = all_allocations[i].start_week + 1
             /\ all_allocations[i].estimated_cost = 0
    /\ (pc = "done" /\ team_members # <<>>) =>
          \A task \in InputTasks :
              (task.estimated_hours = 0 /\ task.phase \in ToSet(phase_order))
              => Cardinality(AllocationsOf(task)) = 1

C8_Witness ==
    /\ pc = "done"
    /\ \E i \in 1..Len(allocations) :
          /\ allocations[i].task.estimated_hours = 0
          /\ allocations[i].end_week = allocations[i].start_week + 1

\* C9: every allocation, normal or forced, lasts max(1, floor(hours / 20))
\* weeks at 50 percent bandwidth, so that start_week < end_week.
C9_DurationRule ==
    \A i \in Allocated :
        LET a     == all_allocations[i]
            whole == a.task.estimated_hours \div 20
        IN  /\ a.end_week - a.start_week = (IF whole < 1 THEN 1 ELSE whole)
            /\ a.allocated_bandwidth = 50
            /\ a.start_week < a.end_week

\* a forced assignment of a task shorter than 20 hours, next to one of a
\* longer task
C9_Witness ==
    \E i, j \in Allocated :
        /\ Forced(i)
        /\ all_allocations[i].task.estimated_hours < 20
        /\ all_allocations[i].end_week = all_allocations[i].start_week + 1
        /\ all_allocations[j].task.estimated_hours >= 40
        /\ all_allocations[j].end_week > all_allocations[j].start_week + 1

NeutralDefault == IF mode = "portfolio" THEN <<1, 2>> ELSE <<3, 10>>

\* the skill score of a candidate record of either run
SkillScoreOf(c) ==
    IF mode = "portfolio" THEN c.skill_score ELSE c.match_score

\* the task the candidates of member_candidates were scored for
ScoredTask == all_allocations[Len(all_allocations)].task

\* C10 (as claimed): every skill score computed for a task and a person lies
\* in [0,1]; for a non-empty list of required skills it is 1 exactly when
\* every required skill is among the person's skills; for an empty list it is
\* the neutral default.
C10_SkillScore ==
    \A j \in 1..Len(member_candidates) :
        LET required == ScoredTask.required_skills
            member   == team_members[member_candidates[j].member]
            score    == SkillScoreOf(member_candidates[j])
        IN  /\ 0 <= score[1] /\ score[1] <= score[2] /\ score[2] > 0
            /\ required # <<>> =>
                  (score = <<1, 1>> <=> ToSet(required) \subseteq member.skills)
            /\ required = <<>> => score = NeutralDefault

\* an assignment has just been appended to the list of the running call
Assigned == Len(all_allocations') = Len(all_allocations) + 1

\* the allocation record just appended
NewAllocation == all_allocations'[Len(all_allocations')]

\* C11: in the portfolio run the consecutive score used for a person is 1,
\* 0.85 and 0.70 for a streak counter of 0, 1 and 2 and exactly 0.5 for every
\* streak counter of 3 or more, the counter being the person's streak
\* counter at the time the task is scored.
C11_ConsecutiveScore ==
    [][(mode = "portfolio" /\ Assigned) =>
          \A j \in 1..Len(member_candidates') :
              LET c == member_candidates'[j]
              IN  /\ c.consecutive_count = consecutive_tasks[c.member]
                  /\ c.consecutive_count = 0 => c.consecutive_score = <<1, 1>>
                  /\ c.consecutive_count = 1 => c.consecutive_score = <<17, 20>>
                  /\ c.consecutive_count = 2 => c.consecutive_score = <<7, 10>>
                  /\ c.consecutive_count >= 3 => c.consecutive_score = <<1, 2>>]_vars

\* a person was scored with 0.5 at a streak of 8 or more
C11_Witness ==
    /\ mode = "portfolio"
    /\ \E j \in 1..Len(member_candidates) :
          /\ member_candidates[j].consecutive_count >= 8
          /\ member_candidates[j].consecutive_score = <<1, 2>>

\* the week a task given to person m would start in, before the assignment
TaskStart(m) ==
    IF mode = "deepdive"
    THEN Max(phase_start_week, member_earliest_week[m])
    ELSE member_earliest_week[m]

\* person m has 50 percent free in every week of the task, before the
\* assignment
Fits(m, task) ==
    \A week \in TaskStart(m)..(TaskStart(m) + duration_weeks(task) - 1) :
        Get(bandwidth_tracker[m], week) + 50
            <= team_members[m].total_bandwidth_percent

\* C12: for each task the candidates are ranked in descending order of
\* combined score, candidates of equal score in roster order, and the task
\* goes to the first candidate of the ranking who fits.
C12_RankedFirstFit ==
    [][Assigned =>
          LET cands == member_candidates'
              ranks == 1..Len(cands)
          IN  /\ Len(cands) = Len(team_members)
              /\ {cands[j].member : j \in ranks} = Members
              /\ \A j, k \in ranks :
                    j < k =>
                       /\ ~ ScoreGT(cands[k].combined_score,
                                    cands[j].combined_score)
                       /\ cands[j].combined_score = cands[k].combined_score
                             => cands[j].member < cands[k].member
              /\ \E p \in ranks :
                    /\ cands[p].member = NewAllocation.team_member
                    /\ \A j \in 1..(p - 1) :
                          ~ Fits(cands[j].member, NewAllocation.task)
                    /\ \/ Fits(cands[p].member, NewAllocation.task)
                       \/ p = 1]_vars

\* two persons who both fit had the same combined score, and the one listed
\* first in the roster received the task
C12_Witness ==
    /\ Len(member_candidates) >= 2
    /\ Len(all_allocations) >= 1
    /\ member_candidates[1].combined_score
           = member_candidates[2].combined_score
    /\ member_candidates[1].member < member_candidates[2].member
    /\ all_allocations[Len(all_allocations)].team_member
           = member_candidates[1].member
    /\ console[Len(console)] = "assigned"
    /\ \A m \in Members : team_members[m].total_bandwidth_percent >= 50

\* C13: in a portfolio run the allocations of a project of lower priority
\* number come before those of a project of higher priority number,
\* projects of equal priority keep their input order, and the allocations
\* of one project come in the order Planning, Design, Development, Testing,
\* Deployment.
C13_PriorityOrder ==
    mode = "portfolio" =>
        /\ \A i, j \in Allocated :
              i < j =>
                 LET p == all_allocations[i].project
                     q == all_allocations[j].project
                 IN  /\ p.priority <= q.priority
                     /\ p.priority = q.priority => p.idx <= q.idx
                     /\ p.idx = q.idx =>
                           PhaseIndex(all_allocations[i].task.phase)
                               < PhaseIndex(all_allocations[j].task.phase)
        /\ (RunComplete /\ team_members # <<>>) =>
              \A n \in 1..Len(projects) : \A k \in 1..Len(phases) :
                  LET a == all_allocations[(n - 1) * Len(phases) + k]
                  IN  /\ a.project = projects[n]
                      /\ a.task.phase = phases[k]

\* a finished run over two projects that the caller listed with the higher
\* priority number first
C13_Witness ==
    /\ mode = "portfolio"
    /\ RunComplete
    /\ Len(projects) = 2
    /\ projects[1].idx = 2
    /\ projects[1].priority < projects[2].priority
    /\ Len(all_allocations) = 2 * Len(phases)

\* C14: when no candidate passes the capacity check the task goes to the
\* top-ranked candidate, starting at that person's cursor; 50 percent is
\* added to that person's ledger for every week of the task, the cursor
\* moves to the end of the task, the streak counter of a portfolio run is
\* updated as for a normal assignment, and the loop goes on to the next task.
C14_ForcedAssignment ==
    [][(Assigned /\ console'[Len(console')] = "overallocated") =>
          LET a == NewAllocation
              m == a.team_member
          IN  /\ \A n \in Members : ~ Fits(n, a.task)
              /\ Len(member_candidates') = Len(team_members)
              /\ m = member_candidates'[1].member
              /\ a.start_week = member_earliest_week[m]
              /\ a.end_week = a.start_week + duration_weeks(a.task)
              /\ \A week \in Weeks(a) :
                    bandwidth_tracker'[m][week]
                        = Get(bandwidth_tracker[m], week) + 50
              /\ \A n \in Members : \A week \in DOMAIN bandwidth_tracker[n] :
                    (n # m \/ week \notin Weeks(a))
                        => bandwidth_tracker'[n][week] = bandwidth_tracker[n][week]
              /\ member_earliest_week'[m] = a.end_week
              /\ \A n \in Members \ {m} :
                    member_earliest_week'[n] = member_earliest_week[n]
              /\ mode = "portfolio" =>
                    /\ last_assigned_member' = m
                    /\ consecutive_tasks'[m] =
                           IF last_assigned_member = m
                           THEN consecutive_tasks[m] + 1 ELSE 1
              /\ pc' = pc
              /\ <<proj_i', task_i'>> # <<proj_i, task_i>>]_vars

\* a forced assignment has overfilled a week of a person, and the run has
\* gone on to assign a later task
C14_Witness ==
    \E i \in Allocated :
        /\ Forced(i)
        /\ i < Len(all_allocations)
        /\ \E week \in Weeks(all_allocations[i]) :
              bandwidth_tracker[all_allocations[i].team_member][week]
                  > team_members[all_allocations[i].team_member]
                        .total_bandwidth_percent

\* C15: during a run no person's cursor ever decreases; after a commit the
\* person's cursor is start_week + duration_weeks of the commit; at the start
\* of a deep-dive phase a cursor below the phase start is raised to it and
\* any other is left alone; and every new task of a person starts at or
\* after that person's cursor.
C15_CursorMonotone ==
    [][/\ \A m \in Members :
             member_earliest_week'[m] >= member_earliest_week[m]
       /\ Assigned =>
             LET a == NewAllocation
             IN  /\ a.start_week >= member_earliest_week[a.team_member]
                 /\ member_earliest_week'[a.team_member]
                        = a.start_week + duration_weeks(a.task)
       /\ (pc = "phase" /\ pc' = "task") =>
             \A m \in Members :
                 member_earliest_week'[m] =
                     IF member_earliest_week[m] < phase_start_week'
                     THEN phase_start_week' ELSE member_earliest_week[m]]_vars

\* in a deep-dive run the cursor of a person without any task was raised to
\* the start of a later phase, after commits had moved another cursor
C15_Witness ==
    /\ mode = "deepdive"
    /\ pc = "task"
    /\ phase_start_week > 0
    /\ \E m, n \in Members :
          /\ member_earliest_week[m] = phase_start_week
          /\ \A i \in Allocated : all_allocations[i].team_member # m
          /\ \E i \in Allocated :
                /\ all_allocations[i].team_member = n
                /\ member_earliest_week[n] >= all_allocations[i].end_week

\* the text-generation call raised, or its text has fewer than two lines of
\* more than 20 characters with a letter
LlmFailed(response) ==
    \/ response.raises
    \/ Cardinality({i \in 1..Len(response.lines) :
                       response.lines[i][1] > 20 /\ response.lines[i][2]}) < 2

\* C16: whatever the text-generation call of a deep-dive execute() does, the
\* allocation list stays the one allocate_tasks returned and the cost and
\* timeline figures are computed from it; when the call fails the risk list
\* is the static fallback, and the output execute() returns carries every
\* allocation.
C16_LlmIndependent ==
    (mode = "deepdive" /\ pc \in {"assessed", "returned"}) =>
        /\ allocations = all_allocations
        /\ LlmFailed(llm_response[1]) =>
              /\ Len(risks) = 3
              /\ \A i \in 1..Len(risks) : risks[i][1] = "static"
        /\ pc = "returned" =>
              /\ output[1].allocations = all_allocations
              /\ output[1].total_cost = SumCosts(all_allocations)
              /\ output[1].timeline_weeks = MaxEndWeek(all_allocations)
              /\ output[1].risks = risks

\* execute() has returned all 22 allocations after the text-generation call
\* raised, and likewise after it returned a text with one usable line
C16_Witness ==
    /\ mode = "deepdive"
    /\ pc = "returned"
    /\ Len(output[1].allocations) = Len(task_templates)
    /\ output[1].total_cost > 0
    /\ \/ llm_response[1].raises
       \/ Len(llm_response[1].lines) >= 2 /\ LlmFailed(llm_response[1])

\* C17 (as stated): after execute() the count reported in the summary
\* (total_allocations of a portfolio run, total_tasks of a deep dive) equals
\* the length of the returned allocation list, timeline_weeks is the largest
\* end_week of the returned allocations (0 when there are none) and
\* total_cost is the sum of their costs.
C17_SummaryAggregates ==
    pc = "returned" =>
        /\ IF mode = "portfolio"
             THEN output[1].total_allocations = Len(allocations)
             ELSE output[1].total_tasks = Len(allocations)
        /\ \A i \in 1..Len(allocations) :
              allocations[i].end_week <= output[1].timeline_weeks
        /\ IF allocations = <<>>
             THEN output[1].timeline_weeks = 0
             ELSE \E i \in 1..Len(allocations) :
                      allocations[i].end_week = output[1].timeline_weeks
        /\ output[1].total_cost = SumCosts(allocations)

\* C18 (as stated): after every assignment of a portfolio run, normal or
\* forced, the streak counter of the person just assigned is the length of the
\* longest run of consecutive assignments to that person that ends with this
\* one, in the order the assignments are emitted over all projects, and the
\* streak counter of every other person is 0.
C18_StreakIsRunLength ==
    [][(mode = "portfolio" /\ Assigned) =>
          LET n == Len(all_allocations')
              m == NewAllocation.team_member
              k == consecutive_tasks'[m]
          IN  /\ k \in 1..n
              /\ \A i \in (n - k + 1)..n :
                    all_allocations'[i].team_member = m
              /\ k < n => all_allocations'[n - k].team_member # m
              /\ \A o \in Members \ {m} : consecutive_tasks'[o] = 0]_vars

\* C19: in every run no person has two allocations whose week intervals
\* [start_week, end_week) overlap: every entry of a person's per-week ledger
\* is 0 or 50, and no week at or after the person's cursor has anything
\* committed.
C19_NoOverlap ==
    /\ \A i, j \in 1..Len(all_allocations) :
          (i < j /\ all_allocations[i].team_member
                       = all_allocations[j].team_member)
              => \/ all_allocations[i].end_week <= all_allocations[j].start_week
                 \/ all_allocations[j].end_week <= all_allocations[i].start_week
    /\ \A m \in Members : \A week \in DOMAIN bandwidth_tracker[m] :
          /\ bandwidth_tracker[m][week] \in {0, 50}
          /\ week < member_earliest_week[m]

\* a finished run in which a person with capacity 100 holds three or more
\* tasks
C19_Witness ==
    /\ pc = "done"
    /\ \E m \in Members :
          /\ Cardinality({i \in 1..Len(all_allocations) :
                              all_allocations[i].team_member = m}) >= 3
          /\ team_members[m].total_bandwidth_percent = 100

\* the persons whose total capacity is 50 percent or more
Able == {m \in Members : team_members[m].total_bandwidth_percent >= 50}

\* C20: a task is assigned through the forced path exactly when every person
\* of the roster has a total capacity below 50; when some person has a
\* capacity of 50 or more every assignment of the run is a normal one and goes
\* to the highest-ranked person with such a capacity, no forced assignment is
\* ever reported, and every task of a known phase is assigned when the run
\* has finished.
C20_ForcedIffNobodyAble ==
    /\ [][Assigned =>
             LET cands  == member_candidates'
                 m      == NewAllocation.team_member
                 forced == console'[Len(console')] = "overallocated"
             IN  /\ forced <=> Able = {}
                 /\ Able # {} =>
                       /\ console'[Len(console')] = "assigned"
                       /\ m \in Able
                       /\ \E p \in 1..Len(cands) :
                             /\ cands[p].member = m
                             /\ \A j \in 1..(p - 1) :
                                   cands[j].member \notin Able]_vars
    /\ [](Able # {} =>
             /\ \A i \in 1..Len(console) : console[i] # "overallocated"
             /\ pc = "done" =>
                   \A task \in InputTasks :
                       task.phase \in ToSet(phase_order)
                           => Cardinality(AllocationsOf(task)) = 1)

\* a person with a capacity below 50 was ranked first, and the task went
\* through the normal path to a lower-ranked person with a capacity of 50
C20_Witness ==
    /\ Len(member_candidates) >= 2
    /\ Len(all_allocations) >= 1
    /\ console[Len(console)] = "assigned"
    /\ team_members[member_candidates[1].member].total_bandwidth_percent < 50
    /\ all_allocations[Len(all_allocations)].team_member
           = member_candidates[2].member
    /\ team_members[member_candidates[2].member].total_bandwidth_percent >= 50

\* the allocations of person m among the first n of the running list
EarlierOf(m, n) == {i \in 1..n : all_allocations[i].team_member = m}

\* C21: in a portfolio run there is no phase gate: a person's first
\* allocation starts at week 0 and every later allocation of that person
\* starts exactly at the end_week of the person's previous allocation, which
\* is the person's cursor.
C21_StartAtCursor ==
    mode = "portfolio" =>
        /\ \A i \in Allocated :
              LET a    == all_allocations[i]
                  prev == EarlierOf(a.team_member, i - 1)
              IN  IF prev = {}
                  THEN a.start_week = 0
                  ELSE a.start_week
                           = all_allocations[CHOOSE k \in prev :
                                 \A l \in prev : l <= k].end_week
        /\ \A m \in Members :
              member_earliest_week[m]
                  = IF EarlierOf(m, Len(all_allocations)) = {}
                    THEN 0
                    ELSE all_allocations[CHOOSE k \in EarlierOf(m, Len(all_allocations)) :
                             \A l \in EarlierOf(m, Len(all_allocations)) : l <= k].end_week

\* a later phase of a project starts before an earlier phase of the same
\* project has ended, the two being assigned to different persons
C21_Witness ==
    /\ mode = "portfolio"
    /\ \E i, j \in Allocated :
          /\ i < j
          /\ all_allocations[i].project = all_allocations[j].project
          /\ PhaseIndex(all_allocations[i].task.phase)
                 < PhaseIndex(all_allocations[j].task.phase)
          /\ all_allocations[i].team_member # all_allocations[j].team_member
          /\ all_allocations[j].start_week < all_allocations[i].end_week

\* C22 (as stated): in a deep-dive run, for any two phases i < j of the fixed
\* order that both contain tasks, every allocation of a phase-j task starts
\* at or after the end_week of every allocation of a phase-i task, also when
\* a phase between i and j contains no tasks.
C22_PhaseOrderingAcrossGaps ==
    mode = "deepdive" =>
        \A i, j \in Allocated :
            PhaseIndex(all_allocations[i].task.phase)
                < PhaseIndex(all_allocations[j].task.phase)
            => all_allocations[j].start_week >= all_allocations[i].end_week

\* the weeks committed to person m in the ledger, in units of 50 percent
LedgerWeeks(m) == SumValues(bandwidth_tracker[m]) \div bandwidth_needed

\* the weeks of the allocations of person m
AllocatedWeeks(m) ==
    Cardinality({<<i, week>> \in Allocated \X (0..MaxEndWeek(all_allocations)) :
                    /\ all_allocations[i].team_member = m
                    /\ week \in Weeks(all_allocations[i])})

\* C23: in a deep-dive run a task whose phase is not one of the five known
\* phases is skipped: it never receives an allocation, the ledger holds
\* nothing but the weeks of the allocations made, nothing but the
\* assignments is reported, and the run finishes with the tasks of the known
\* phases allocated.
C23_UnknownPhaseSkipped ==
    mode = "deepdive" =>
        /\ \A i \in Allocated :
              all_allocations[i].task.phase \in ToSet(phase_order)
        /\ \A m \in Members : LedgerWeeks(m) = AllocatedWeeks(m)
        /\ Len(console) = Len(all_allocations)
        /\ pc = "done" =>
              \A task \in InputTasks :
                  Cardinality(AllocationsOf(task))
                      = IF task.phase \in ToSet(phase_order)
                           /\ team_members # <<>>
                        THEN 1 ELSE 0

\* a finished run over a task of a known phase and a task of an unknown
\* phase: only the first has an allocation
C23_Witness ==
    /\ mode = "deepdive"
    /\ pc = "done"
    /\ Len(allocations) = 1
    /\ \E task \in InputTasks : task.phase \notin ToSet(phase_order)
    /\ \E task \in InputTasks : task.phase \in ToSet(phase_order)

\* person m holds every skill the task requires / none of them
HoldsAll(m, task) == ToSet(task.required_skills) \subseteq team_members[m].skills

HoldsNone(m, task) == ToSet(task.required_skills) \cap team_members[m].skills = {}

\* C24 (as stated): in a deep-dive run a person holding all of a task's
\* required skills has a strictly higher combined score than a person holding
\* none of them, whatever their workloads; hence when a person holding all of
\* them has a capacity of 50 or more the task is not assigned to a person
\* holding none of them.
C24_FullMatchBeatsNoMatch ==
    [][(mode = "deepdive" /\ Assigned
            /\ NewAllocation.task.required_skills # <<>>) =>
          LET task  == NewAllocation.task
              cands == member_candidates'
          IN  /\ \A j, k \in 1..Len(cands) :
                    (HoldsAll(cands[j].member, task)
                        /\ HoldsNone(cands[k].member, task))
                    => ScoreGT(cands[j].combined_score, cands[k].combined_score)
              /\ (\E m \in Able : HoldsAll(m, task))
                    => ~ HoldsNone(NewAllocation.team_member, task)]_vars

\* an assignment ranks every candidate with 100 / (100 + 50 * weeks allocated
\* to the person so far); compared with the ranking of the previous task the
\* score is lower for the person who received that task and not higher for
\* anyone else
StepLowersWorkloadScore ==
    Assigned =>
        /\ \A j \in 1..Len(member_candidates') :
              LET c == member_candidates'[j]
              IN  c.workload_score[1] * (100 + 50 * AllocatedWeeks(c.member))
                      = 100 * c.workload_score[2]
        /\ all_allocations # <<>> =>
              \A j \in 1..Len(member_candidates') :
              \A k \in 1..Len(member_candidates) :
                  LET new == member_candidates'[j]
                      old == member_candidates[k]
                  IN  new.member = old.member =>
                        IF old.member
                               = all_allocations[Len(all_allocations)].team_member
                        THEN new.workload_score[1] * old.workload_score[2]
                                 < old.workload_score[1] * new.workload_score[2]
                        ELSE new.workload_score[1] * old.workload_score[2]
                                 <= old.workload_score[1] * new.workload_score[2]

\* C25: the workload score of a person is 1 / (1 + total/100), total being
\* the sum of the person's ledger over all weeks: the score a candidate is
\* ranked with is 100 / (100 + 50 * the weeks allocated to the person so
\* far), it is 1 exactly while nothing is committed, it is above 0, and from
\* one task of a run to the next it never increases and strictly decreases
\* for the person who received the task.
C25_WorkloadScore ==
    /\ [](\A m \in Members :
             /\ workload_score(m)[1] > 0 /\ workload_score(m)[2] > 0
             /\ workload_score(m)[1] <= workload_score(m)[2]
             /\ workload_score(m) = <<1, 1>> <=> AllocatedWeeks(m) = 0)
    /\ [][StepLowersWorkloadScore]_vars

\* a person with five or more weeks committed was ranked with a workload
\* score of 2/7 or less
C25_Witness ==
    \E j \in 1..Len(member_candidates) :
        LET c == member_candidates[j]
        IN  /\ c.workload_score[1] * 7 <= 2 * c.workload_score[2]
            /\ c.workload_score[1] > 0

\* the step handles one task of the loop over the tasks
TaskProcessed ==
    \/ mode = "portfolio" /\ pc = "run" /\ <<proj_i', task_i'>> # <<proj_i, task_i>>
    \/ mode = "deepdive" /\ pc = "task" /\ task_i' = task_i + 1

\* C26: no step of a run changes the roster or the project list; the list of
\* allocations changes only by one record being appended when a task is
\* processed, the records already in it keeping their content and place, and
\* the list stored on the agent is the finished list.
C26_AppendOnly ==
    [][/\ team_members' = team_members
       /\ projects' = projects
       /\ \/ all_allocations' = all_allocations
          \/ /\ Assigned
             /\ SubSeq(all_allocations', 1, Len(all_allocations))
                    = all_allocations
             /\ TaskProcessed
       /\ (TaskProcessed /\ team_members # <<>>) => Assigned
       /\ allocations' \in {allocations, all_allocations}]_vars

\* a finished run whose list holds the records of two or more tasks, the
\* first of them still in first place
C26_Witness ==
    /\ pc = "done"
    /\ Len(allocations) >= 2
    /\ allocations = all_allocations
    /\ allocations[1].start_week = 0
    /\ team_members # <<>>

\* the locals of a run that has allocated nothing yet
LocalsFresh ==
    /\ \A m \in Members :
          /\ bandwidth_tracker'[m] = EmptyDict
          /\ member_earliest_week'[m] = 0
          /\ consecutive_tasks'[m] = 0
    /\ last_assigned_member' = 0
    /\ phase_end_weeks' = EmptyDict
    /\ phase_start_week' = 0
    /\ all_allocations' = <<>>

\* the deep dives a master has started
DeepDivesRun == SelectSeq(master.steps_run, LAMBDA r : r.step = "deep_dive")

\* the master constructs the agent of the next selected project
DeepDiveStarts ==
    /\ master.step = "deep_dive"
    /\ Len(master'.deep_dive_queue) < Len(master.deep_dive_queue)

\* C27: the ledger, the cursors and the streak counters belong to one run.
\* Every deep-dive run of a workflow starts with an empty ledger, all cursors
\* at 0 and an empty list, whatever the portfolio run and the earlier deep
\* dives have booked: its ledger holds the weeks of its own allocations and
\* nothing else, and its first allocation starts at week 0. A run repeated on
\* the same agent starts with fresh locals too, and its list replaces the
\* list of the run before with the same assignments.
C27_FreshLocalsPerRun ==
    /\ []((master # NoMaster /\ mode = "deepdive") =>
              /\ \A m \in Members : LedgerWeeks(m) = AllocatedWeeks(m)
              /\ all_allocations # <<>> => all_allocations[1].start_week = 0)
    /\ []((runs >= 2 /\ RunComplete) =>
              /\ Len(all_allocations) = Len(allocations)
              /\ \A i \in Allocated :
                    WithoutTaskId(all_allocations[i])
                        = WithoutTaskId(allocations[i]))
    /\ [][/\ DeepDiveStarts => LocalsFresh
          /\ runs' = runs + 1 => LocalsFresh]_vars

\* the second deep dive of a workflow has allocated its 22 tasks, after a
\* portfolio run and a first deep dive that booked the same person
C27_Witness ==
    /\ Len(DeepDivesRun) = 2
    /\ mode = "deepdive"
    /\ RunComplete
    /\ Len(all_allocations) = 22
    /\ team_members # <<>>

\* C28 (as claimed): no allocation of a portfolio run ends after the
\* configured horizon: end_week <= max_weeks for every allocation.
C28_WithinHorizon ==
    mode = "portfolio" =>
        \A i \in Allocated : all_allocations[i].end_week <= max_weeks

\* the place of a step in the workflow
StepRank(step) ==
    CASE step = "portfolio" -> 1
      [] step = "deep_dive" -> 2
      [] step = "training"  -> 3
      [] step = "summary"   -> 4

\* the names of the projects whose deep dive has been started
DeepDived == {DeepDivesRun[i].project : i \in 1..Len(DeepDivesRun)}

\* the names of the projects of priority 1 given to the master
PriorityOne ==
    {i \in 1..Len(master.projects) : master.projects[i].priority = 1}

\* C29: the workflow runs its steps in the order portfolio, deep dive,
\* training, summary, each step starting when the step before it has
\* returned and the steps other than the deep dive running once. When the
\* deep-dive step is over, a deep dive has been run once for exactly the
\* projects named in the config; with no name in the config, for the first
\* two projects of priority 1 in input order (for the only one when there is
\* one, for none when there is none).
C29_WorkflowOrder ==
    /\ [](/\ \A i, j \in 1..Len(master.steps_run) :
               (i < j) =>
                   /\ StepRank(master.steps_run[i].step)
                          <= StepRank(master.steps_run[j].step)
                   /\ (master.steps_run[i].step = master.steps_run[j].step)
                          => (master.steps_run[i].step = "deep_dive")
          /\ (master.steps_run # <<>>) =>
                 (master.steps_run[1].step = "portfolio")
          /\ (master.step = "complete") =>
                 /\ Len(master.steps_run) = Len(DeepDivesRun) + 3
                 /\ master.steps_run[Len(master.steps_run)].step = "summary"
          /\ (master.step \in {"training", "complete"}) =>
                 /\ Len(DeepDivesRun) = Cardinality(DeepDived)
                 /\ \A i, j \in 1..Len(DeepDivesRun) :
                       (i < j) =>
                           (DeepDivesRun[i].project < DeepDivesRun[j].project)
                 /\ (master.deep_dive_projects # {}) =>
                       (DeepDived = master.deep_dive_projects)
                 /\ (master.deep_dive_projects = {}) =>
                       /\ DeepDived \subseteq PriorityOne
                       /\ Cardinality(DeepDived)
                              = (IF Cardinality(PriorityOne) < 2
                                 THEN Cardinality(PriorityOne) ELSE 2)
                       /\ \A p \in DeepDived : \A q \in PriorityOne :
                             (q < p) => (q \in DeepDived))
    /\ [][(master'.steps_run # master.steps_run) =>
              /\ (master.steps_run = <<>>) \/ (pc = "returned")
              /\ Len(master'.steps_run) = Len(master.steps_run) + 1]_vars

\* a workflow has finished whose config names no project and whose list has
\* three projects of priority 1: two deep dives were run
C29_Witness ==
    /\ master.step = "complete"
    /\ master.deep_dive_projects = {}
    /\ Cardinality(PriorityOne) >= 3
    /\ DeepDived = {1, 2}

\* run_analysis_for_streamlit is called in this step
AnalysisInvoked == session'.analyses = session.analyses + 1

\* C30: the analysis is invoked only when the list of team members and the
\* list of projects are both non-empty and an API key has been entered;
\* every invocation returns a result of status 'success' or 'error'; the
\* stored results are either absent or a result of status 'success', an
\* invocation stores its result exactly when the status is 'success' and
\* leaves the stored results as they were otherwise, and the stored results
\* change in no other step but the dashboard's "Run New Analysis", which
\* clears them. The dashboard shows results exactly when some are stored.
C30_OnlySuccessStored ==
    /\ [](/\ session.analysis_results # <<>> =>
                 session.analysis_results[1].status = "success"
          /\ session.results # <<>> =>
                 session.results[1].status \in {"success", "error"}
          /\ DashboardShown =>
                 /\ session.analyses >= 1
                 /\ session.analysis_results[1].status = "success")
    /\ [][/\ AnalysisInvoked =>
                 /\ session.team_members > 0
                 /\ session.projects > 0
                 /\ session.api_key # ""
                 /\ session'.results # <<>>
                 /\ session'.results[1].analysis = session'.analyses
                 /\ session'.analysis_results =
                        IF session'.results[1].status = "success"
                        THEN session'.results
                        ELSE session.analysis_results
          /\ (session'.analyses = session.analyses
                 /\ session'.analysis_results # session.analysis_results) =>
                 /\ session.page = "Dashboard"
                 /\ session'.analysis_results = <<>>
          /\ session'.analyses # session.analyses => AnalysisInvoked]_vars

\* a failed analysis after a successful one: the results of the first are
\* still stored
C30_Witness ==
    /\ session.analyses = 2
    /\ session.results # <<>>
    /\ session.results[1].status = "error"
    /\ session.analysis_results # <<>>
    /\ session.analysis_results[1].analysis = 1

====
